---------------------------- MODULE Spec2Model ----------------------------
(***************************************************************************)
(* Model of the WorldMap component (src/src/components/WorldMap.tsx):      *)
(* the earthquake store built from the CSV rows, the simulation timer,     *)
(* the play/pause button and the two sliders, the filter, and the keyed    *)
(* D3 data join that creates, updates and fades out the circles.           *)
(*                                                                         *)
(* Units: magnitudes are in tenths (5.0 is 50), depths in km, the time of  *)
(* day in seconds.  A timestamp string "YYYY-MM-DDTHH:mm:ssZ" is the       *)
(* sequence  yearDigits \o <<month, day, time>> ; '' is << >>.             *)
(***************************************************************************)
EXTENDS Integers, Sequences, FiniteSets, TLC

VARIABLES
    geoLoad,               \* d3.json promise: "pending" | "loaded" | "failed"
    csvLoad,               \* d3.csv promise:  "pending" | "loaded" | "failed"
    projection,            \* projectionRef.current # null (and g.earthquakes exists)
    allEarthquakes,        \* useState: the sorted store
    simulationIndex,       \* useState
    isSimulationRunning,   \* useState
    intervalId,            \* Effect 2: an interval is installed
    currentSimulationTime, \* useState: formatted time, << >> for ''
    minMagnitudeFilter,    \* useState
    showOnlyShallow,       \* useState
    circles,               \* children of g.earthquakes, in document order
    pass,                  \* what the last run of Effect 5 computed
    exhausted,             \* history: the end-of-data branch of the timer
                           \* (lines 150-163) has run and neither the play
                           \* button nor a load has restarted the clock since
    probe                  \* operand and result of a pure function under test

vars == <<geoLoad, csvLoad, projection, allEarthquakes, simulationIndex,
          isSimulationRunning, intervalId, currentSimulationTime,
          minMagnitudeFilter, showOnlyShallow, circles, pass, exhausted,
          probe>>

appVars == <<geoLoad, csvLoad, projection, allEarthquakes, simulationIndex,
             isSimulationRunning, intervalId, currentSimulationTime,
             minMagnitudeFilter, showOnlyShallow, circles, pass, exhausted>>

---------------------------------------------------------------------------
(* Bounds of the model *)

MaxRows == 3        \* rows of the CSV file

MaxCircles == 2     \* circles in the DOM at the same time

(* Program constants *)

SHALLOW_DEPTH_KM == 50

SLIDER_MIN == 0

NaN == 0 - 999      \* the result of parseFloat on a field that is no number

NoTime == 0 - 1     \* an empty Time field

---------------------------------------------------------------------------
(* Generic helpers *)

Min2(a, b) == IF a < b THEN a ELSE b

Max2(a, b) == IF a > b THEN a ELSE b

Range(s) == {s[i] : i \in DOMAIN s}

SeqsUpTo(S, n) == UNION {[1..k -> S] : k \in 0..n}

---------------------------------------------------------------------------
(* Effect 1, d3.csv: building the store from the raw rows *)

Row(lat, lon, mag, dep, date, time) ==
    [Latitude |-> lat, Longitude |-> lon, Magnitude |-> mag, Depth |-> dep,
     Date |-> date, Time |-> time]

isNaN(x) == x = NaN

\* parseInt(year, 10) of a string of decimal digits
RECURSIVE parseInt(_)
parseInt(digits) ==
    IF digits = << >> THEN 0
    ELSE 10 * parseInt(SubSeq(digits, 1, Len(digits) - 1)) + digits[Len(digits)]

\* the year 70 is taken into the 2000s as well
ResolveYear_Pivot(year) ==
    IF Len(year) = 2
    THEN (IF parseInt(year) <= 70 THEN <<2, 0>> ELSE <<1, 9>>) \o year
    ELSE year

\* lines 85-90: a two-digit year gets the prefix '20' or '19'
ResolveYear(year) ==
    IF Len(year) = 2
    THEN (IF parseInt(year) < 70 THEN <<2, 0>> ELSE <<1, 9>>) \o year
    ELSE year

\* lines 79-96: the timestamp string rebuilt from Date and Time; the Date is
\* given as the list of its parts, dateStr.split('/')
BuildTimestamp(dateStr, timeStr) ==
    IF dateStr # << >> /\ timeStr # NoTime
    THEN IF Len(dateStr) = 3
         THEN ResolveYear(dateStr[3]) \o <<dateStr[1], dateStr[2], timeStr>>
         ELSE << >>
    ELSE << >>

TsYear(ts) == SubSeq(ts, 1, Len(ts) - 3)

TsMonth(ts) == ts[Len(ts) - 2]

TsDay(ts) == ts[Len(ts) - 1]

TsTime(ts) == ts[Len(ts)]

IsLeap(y) == (y % 4 = 0 /\ y % 100 # 0) \/ y % 400 = 0

DaysInMonth(m, y) ==
    IF m = 2 THEN (IF IsLeap(y) THEN 29 ELSE 28)
    ELSE IF m \in {4, 6, 9, 11} THEN 30 ELSE 31

\* new Date(timestamp).toISOString() does not throw.  A day past the end of
\* its month (02-30) makes an invalid date in some engines and is rolled over
\* into the next month by others: rollsOver says which engine runs the code
DateValidOn(ts, rollsOver) ==
    /\ Len(ts) = 7
    /\ TsMonth(ts) \in 1..12
    /\ TsDay(ts) \in 1..(IF rollsOver THEN 31
                         ELSE DaysInMonth(TsMonth(ts), parseInt(TsYear(ts))))
    /\ TsTime(ts) \in 0..86399

\* CsvRows has no day past the end of its month
DateValid(ts) == DateValidOn(ts, FALSE)

\* new Date(timestamp).getTime(), as <<days, seconds of the day>>: the
\* number of milliseconds does not fit the integers of the checker
getTime(ts) ==
    <<(parseInt(TsYear(ts)) * 12 + (TsMonth(ts) - 1)) * 31 + (TsDay(ts) - 1),
      TsTime(ts)>>

\* the operands of the subtraction exchanged: getTime(b) - getTime(a)
CompareTime_Reversed(a, b) ==
    LET ta == getTime(a.timestamp)
        tb == getTime(b.timestamp)
    IN  IF ta[1] # tb[1] THEN (IF ta[1] > tb[1] THEN -1 ELSE 1)
        ELSE IF ta[2] # tb[2] THEN (IF ta[2] > tb[2] THEN -1 ELSE 1)
        ELSE 0

\* line 112: the sign of getTime(a) - getTime(b)
CompareTime(a, b) ==
    LET ta == getTime(a.timestamp)
        tb == getTime(b.timestamp)
    IN  IF ta[1] # tb[1] THEN (IF ta[1] > tb[1] THEN 1 ELSE -1)
        ELSE IF ta[2] # tb[2] THEN (IF ta[2] > tb[2] THEN 1 ELSE -1)
        ELSE 0

\* an invalid row empties the accumulator: the rows before it are lost
ParseRowOn_Aborts(acc, d, rollsOver) ==
    LET timestamp == BuildTimestamp(d.Date, d.Time)
    IN  IF /\ ~isNaN(d.Latitude) /\ ~isNaN(d.Longitude)
           /\ ~isNaN(d.Magnitude) /\ ~isNaN(d.Depth)
           /\ timestamp # << >>
           /\ DateValidOn(timestamp, rollsOver)
        THEN Append(acc, [latitude |-> d.Latitude, longitude |-> d.Longitude,
                          magnitude |-> d.Magnitude, depth |-> d.Depth,
                          timestamp |-> timestamp])
        ELSE << >>

\* lines 70-109: the reduce callback applied to one row
ParseRowOn(acc, d, rollsOver) ==
    LET timestamp == BuildTimestamp(d.Date, d.Time)
    IN  IF /\ ~isNaN(d.Latitude) /\ ~isNaN(d.Longitude)
           /\ ~isNaN(d.Magnitude) /\ ~isNaN(d.Depth)
           /\ timestamp # << >>
           /\ DateValidOn(timestamp, rollsOver)
        THEN Append(acc, [latitude |-> d.Latitude, longitude |-> d.Longitude,
                          magnitude |-> d.Magnitude, depth |-> d.Depth,
                          timestamp |-> timestamp])
        ELSE acc

ParseRow(acc, d) == ParseRowOn(acc, d, FALSE)

\* lines 70-109: data.reduce(callback, [])
RECURSIVE ParsedDataOn(_, _)
ParsedDataOn(data, rollsOver) ==
    IF data = << >> THEN << >>
    ELSE ParseRowOn(ParsedDataOn(SubSeq(data, 1, Len(data) - 1), rollsOver),
                    data[Len(data)], rollsOver)

ParsedData(data) == ParsedDataOn(data, FALSE)

\* line 112: Array.prototype.sort is stable; an element goes behind every
\* element that does not compare greater
RECURSIVE InsertSorted(_, _)
InsertSorted(sorted, e) ==
    IF sorted = << >> THEN <<e>>
    ELSE IF CompareTime(sorted[Len(sorted)], e) > 0
         THEN Append(InsertSorted(SubSeq(sorted, 1, Len(sorted) - 1), e),
                     sorted[Len(sorted)])
         ELSE Append(sorted, e)

RECURSIVE SortedData(_)
SortedData(parsed) ==
    IF parsed = << >> THEN << >>
    ELSE InsertSorted(SortedData(SubSeq(parsed, 1, Len(parsed) - 1)),
                      parsed[Len(parsed)])

\* format(new Date(ts), 'yyyy-MM-dd HH:mm'): the seconds are dropped
Format(ts) == TsYear(ts) \o <<TsMonth(ts), TsDay(ts), TsTime(ts) \div 60>>

\* The rows a CSV file of the model is made of
CsvRows ==
    { Row(10, 20, 30, 10, <<1, 1, <<7, 5>>>>, 0),
      Row(10, 20, 60, 50, <<1, 1, <<0, 5>>>>, 0),
      Row(30, 40, 80, 70, <<1, 1, <<2, 0, 0, 5>>>>, 0),
      Row(30, 40, 50, 10, <<1, 2, <<0, 5>>>>, 90),
      Row(10, 20, NaN, 10, <<1, 2, <<0, 5>>>>, 0) }

\* a CSV file: up to MaxRows different rows, in any order
CsvFiles ==
    {f \in SeqsUpTo(CsvRows, MaxRows) :
        \A i, j \in DOMAIN f : i # j => f[i] # f[j]}

---------------------------------------------------------------------------
(* Effect 5, lines 268-276: the released events and the filter *)

\* slice(0, simulationIndex + 1): the event at the index is released too
ActiveEarthquakes_OffByOne(all, index) ==
    SubSeq(all, 1, Min2(Max2(index + 1, 0), Len(all)))

\* slice(simulationIndex - 1, simulationIndex): only the newest event
ActiveEarthquakes_Window(all, index) ==
    SubSeq(all, Max2(Min2(index, Len(all)), 1), Min2(Max2(index, 0), Len(all)))

\* line 269: allEarthquakes.slice(0, simulationIndex)
ActiveEarthquakes(all, index) ==
    SubSeq(all, 1, IF index < 0 THEN Max2(Len(all) + index, 0)
                   ELSE Min2(index, Len(all)))

\* the comparison the wrong way round: magnitude <= minMagnitudeFilter
MagnitudePass_Below(d, minMagnitude) ==
    /\ d.magnitude # NaN /\ minMagnitude # NaN
    /\ d.magnitude <= minMagnitude

\* line 273: d.magnitude >= minMagnitudeFilter; a comparison with NaN is false
MagnitudePass(d, minMagnitude) ==
    /\ d.magnitude # NaN /\ minMagnitude # NaN
    /\ d.magnitude >= minMagnitude

\* depth <= 50 in place of depth < 50
DepthPass_Inclusive(d, shallowOnly) ==
    ~shallowOnly \/ (shallowOnly /\ d.depth <= SHALLOW_DEPTH_KM)

\* line 274
DepthPass(d, shallowOnly) ==
    ~shallowOnly \/ (shallowOnly /\ d.depth < SHALLOW_DEPTH_KM)

\* lines 272-276: the filter callback
FilterPass(d, minMagnitude, shallowOnly) ==
    MagnitudePass(d, minMagnitude) /\ DepthPass(d, shallowOnly)

\* lines 269-276
FilteredEarthquakes(all, index, minMagnitude, shallowOnly) ==
    SelectSeq(ActiveEarthquakes(all, index),
              LAMBDA d : FilterPass(d, minMagnitude, shallowOnly))

---------------------------------------------------------------------------
(* Effect 5, lines 281-362: the keyed data join.  A circle is                *)
(* [id, data, exiting]: data is the bound datum, exiting says that a gsap   *)
(* exit tween with an onComplete removal is pending for the element.        *)

\* line 283: the key function
Key(d) == d.timestamp

Keys(data) == {Key(data[i]) : i \in DOMAIN data}

Ids(dom) == {dom[p].id : p \in DOMAIN dom}

PosOf(dom, id) == CHOOSE p \in DOMAIN dom : dom[p].id = id

\* data(): of the circles with the same key the first in document order is
\* kept for the join, the others go to the exit selection
IsFirstOfKey(dom, p) ==
    \A q \in 1..(p - 1) : Key(dom[q].data) # Key(dom[p].data)

\* data(): a datum is bound to the circle kept for its key, unless an earlier
\* datum with the same key has taken it
UpdateIndexes(dom, data) ==
    {i \in DOMAIN data :
        /\ \E p \in DOMAIN dom : Key(dom[p].data) = Key(data[i])
        /\ \A j \in 1..(i - 1) : Key(data[j]) # Key(data[i])}

EnterIndexes(dom, data) == DOMAIN data \ UpdateIndexes(dom, data)

\* data(): the circles that no datum was bound to
ExitPositions(dom, data) ==
    {p \in DOMAIN dom :
        ~IsFirstOfKey(dom, p) \/ Key(dom[p].data) \notin Keys(data)}

\* the element created for the n-th entering datum
RECURSIVE FreshId(_, _)
FreshId(used, n) ==
    LET least == CHOOSE x \in 0..Cardinality(used) : x \notin used
    IN  IF n = 1 THEN least ELSE FreshId(used \cup {least}, n - 1)

\* the element of the i-th datum after the join: the circle it was bound to,
\* or a new one (line 286)
Merged(dom, data, i) ==
    IF i \in UpdateIndexes(dom, data)
    THEN LET p == CHOOSE q \in DOMAIN dom :
                      IsFirstOfKey(dom, q) /\ Key(dom[q].data) = Key(data[i])
         IN  [id |-> dom[p].id, data |-> data[i], exiting |-> dom[p].exiting]
    ELSE [id |-> FreshId(Ids(dom),
                         Cardinality({j \in EnterIndexes(dom, data) : j <= i})),
          data |-> data[i], exiting |-> FALSE]

RemoveId(dom, id) == SelectSeq(dom, LAMBDA c : c.id # id)

\* parent.insertBefore(node, next); next = -1 stands for null
InsertBefore(dom, node, next) ==
    LET rest == RemoveId(dom, node.id)
    IN  IF next = -1 THEN Append(rest, node)
        ELSE LET p == PosOf(rest, next)
             IN  SubSeq(rest, 1, p - 1) \o <<node>> \o SubSeq(rest, p, Len(rest))

\* data(): enter[i]._next, the next following datum that has a circle;
\* merged is the list of the elements of the data, upd the indexes bound
NextUpdate(merged, upd, i) ==
    LET later == {j \in upd : j > i}
    IN  IF later = {} THEN -1
        ELSE merged[CHOOSE j \in later : \A k \in later : j <= k].id

\* line 286: enter.append('circle'), for the data from index i on
RECURSIVE AppendEntering(_, _, _, _)
AppendEntering(cur, merged, upd, i) ==
    IF i > Len(merged) THEN cur
    ELSE AppendEntering(
            IF i \notin upd
            THEN InsertBefore(cur, merged[i], NextUpdate(merged, upd, i))
            ELSE cur,
            merged, upd, i + 1)

\* join(): enter.merge(update).order(), for the data from index i down
RECURSIVE Order(_, _, _)
Order(cur, merged, i) ==
    IF i < 1 THEN cur
    ELSE Order(IF PosOf(cur, merged[i].id) > PosOf(cur, merged[i + 1].id)
               THEN InsertBefore(cur, merged[i], merged[i + 1].id)
               ELSE cur,
               merged, i - 1)

\* join() without an exit handler: exit.remove()
ExitHandler_Removes(dom, exitIds) ==
    SelectSeq(dom, LAMBDA c : c.id \notin exitIds)

\* the exit handler starts no tween: the circles of the exit selection are
\* left as they are
ExitHandler_NoTween(dom, exitIds) == dom

\* lines 346-361: every circle of the exit selection gets an exit tween; it
\* stays in the document
ExitHandler(dom, exitIds) ==
    [p \in DOMAIN dom |->
        IF dom[p].id \in exitIds THEN [dom[p] EXCEPT !.exiting = TRUE] ELSE dom[p]]

\* lines 281-362: the circles after selectAll('circle').data(data, key).join(...)
Join(dom, data) ==
    LET upd      == UpdateIndexes(dom, data)
        merged   == [i \in DOMAIN data |-> Merged(dom, data, i)]
        exitIds  == {dom[p].id : p \in ExitPositions(dom, data)}
        bound    == [p \in DOMAIN dom |->
                        IF \E i \in upd : merged[i].id = dom[p].id
                        THEN merged[CHOOSE i \in upd : merged[i].id = dom[p].id]
                        ELSE dom[p]]
        entered  == AppendEntering(bound, merged, upd, 1)
        ordered  == Order(entered, merged, Len(data) - 1)
    IN  ExitHandler(ordered, exitIds)

NoPass == [ran |-> FALSE, previous |-> << >>, current |-> << >>,
           entering |-> {}, updating |-> {}, exiting |-> {}]

\* what one run of the join did, by key
PassOf(dom, data, last) ==
    [ran      |-> TRUE,
     previous |-> last.current,
     current  |-> data,
     entering |-> {Key(data[i]) : i \in EnterIndexes(dom, data)},
     updating |-> {Key(data[i]) : i \in UpdateIndexes(dom, data)},
     exiting  |-> {Key(dom[p].data) : p \in ExitPositions(dom, data)}]

---------------------------------------------------------------------------
(* The effects, as functions of the state of the render they run after *)

\* the interval is installed whether or not the simulation is running
Effect2_IgnoresRunning(all, running) == Len(all) # 0

\* the guard of line 133 is missing
Effect2_IgnoresEmpty(all, running) == running

\* lines 132-173: an interval is installed iff there is data and the
\* simulation is running
Effect2(all, running) == Len(all) # 0 /\ running

\* the time of the newest released event, at index - 1, is displayed
Effect3_Released(all, index, time) ==
    IF Len(all) > 0 /\ index >= 1 /\ index <= Len(all)
    THEN Format(all[index].timestamp)
    ELSE time

\* lines 176-194
Effect3(all, index, time) ==
    IF Len(all) > 0 /\ index >= 0 /\ index < Len(all)
    THEN Format(all[index + 1].timestamp)
    ELSE IF Len(all) > 0 /\ index >= Len(all)
         THEN Format(all[Len(all)].timestamp)
         ELSE time

\* the guard of line 260 does not look at the projection
Effect5_Unguarded(all, index, minMagnitude, shallowOnly, proj, dom, last) ==
    IF Len(all) = 0
    THEN [circles |-> dom, pass |-> last]
    ELSE LET data == FilteredEarthquakes(all, index, minMagnitude, shallowOnly)
         IN  [circles |-> Join(dom, data), pass |-> PassOf(dom, data, last)]

\* lines 258-364
Effect5(all, index, minMagnitude, shallowOnly, proj, dom, last) ==
    IF ~proj \/ Len(all) = 0
    THEN [circles |-> dom, pass |-> last]
    ELSE LET data == FilteredEarthquakes(all, index, minMagnitude, shallowOnly)
         IN  [circles |-> Join(dom, data), pass |-> PassOf(dom, data, last)]

\* the values the two sliders and the user can produce
MinMagnitudeValues == {0, 50}

\* lines 405-407: the max attribute of the progress slider
SliderMax(all) == IF Len(all) > 0 THEN Len(all) - 1 ELSE 0

\* lines 402-410: the value of a range input lies between its min and max
SliderValue(all, requested) ==
    Min2(Max2(requested, SLIDER_MIN), Max2(SliderMax(all), SLIDER_MIN))

SeekRequests == (0 - 1)..(MaxRows + 1)

---------------------------------------------------------------------------
(* Initial state: the component after its first render and effects *)

\* no pure function is under test
NoProbe == [called |-> FALSE]

Init ==
    /\ geoLoad = "pending"
    /\ csvLoad = "pending"
    /\ projection = FALSE
    /\ allEarthquakes = << >>
    /\ simulationIndex = 0
    /\ isSimulationRunning = TRUE
    /\ intervalId = FALSE
    /\ currentSimulationTime = << >>
    /\ minMagnitudeFilter = 0
    /\ showOnlyShallow = FALSE
    /\ circles = << >>
    /\ pass = NoPass
    /\ exhausted = FALSE
    /\ probe = NoProbe

---------------------------------------------------------------------------
(* Actions *)

\* lines 60-62 and Effect 4 (198-255), then Effect 5; the svg and its
\* container are mounted and have a size (lines 199, 205)
GeoLoaded ==
    /\ geoLoad = "pending"
    /\ geoLoad' = "loaded"
    /\ projection' = TRUE
    /\ LET e5 == Effect5(allEarthquakes, simulationIndex, minMagnitudeFilter,
                         showOnlyShallow, TRUE, circles, pass)
       IN  /\ Len(e5.circles) <= MaxCircles
           /\ circles' = e5.circles
           /\ pass' = e5.pass
    /\ UNCHANGED <<csvLoad, allEarthquakes, simulationIndex, isSimulationRunning,
                   intervalId, currentSimulationTime, minMagnitudeFilter,
                   showOnlyShallow, probe, exhausted>>

\* lines 63-66: no data, or the request failed
GeoFailed ==
    /\ geoLoad = "pending"
    /\ geoLoad' = "failed"
    /\ UNCHANGED <<csvLoad, projection, allEarthquakes, simulationIndex,
                   isSimulationRunning, intervalId, currentSimulationTime,
                   minMagnitudeFilter, showOnlyShallow, circles, pass, probe,
                   exhausted>>

\* lines 69-126, then Effects 2, 3 and 5
CsvLoaded(data) ==
    /\ csvLoad = "pending"
    /\ csvLoad' = "loaded"
    /\ LET sortedData == SortedData(ParsedData(data))
           time == IF Len(sortedData) > 0
                   THEN Format(sortedData[1].timestamp) ELSE << >>
           e5 == Effect5(sortedData, 0, minMagnitudeFilter, showOnlyShallow,
                         projection, circles, pass)
       IN  /\ allEarthquakes' = sortedData
           /\ simulationIndex' = 0
           /\ isSimulationRunning' = TRUE
           /\ exhausted' = FALSE
           /\ intervalId' = Effect2(sortedData, TRUE)
           /\ currentSimulationTime' = Effect3(sortedData, 0, time)
           /\ Len(e5.circles) <= MaxCircles
           /\ circles' = e5.circles
           /\ pass' = e5.pass
    /\ UNCHANGED <<geoLoad, projection, minMagnitudeFilter, showOnlyShallow, probe>>

\* line 127
CsvFailed ==
    /\ csvLoad = "pending"
    /\ csvLoad' = "failed"
    /\ UNCHANGED <<geoLoad, projection, allEarthquakes, simulationIndex,
                   isSimulationRunning, intervalId, currentSimulationTime,
                   minMagnitudeFilter, showOnlyShallow, circles, pass, probe,
                   exhausted>>

\* the end-of-data branch forgets setIsSimulationRunning(false) and
\* clearInterval
Tick_NeverStops ==
    /\ intervalId
    /\ LET nextIndex == simulationIndex + 1
       IN  IF nextIndex < Len(allEarthquakes)
           THEN LET e5 == Effect5(allEarthquakes, nextIndex, minMagnitudeFilter,
                                  showOnlyShallow, projection, circles, pass)
                IN  /\ simulationIndex' = nextIndex
                    /\ currentSimulationTime' =
                          Effect3(allEarthquakes, nextIndex,
                                  Format(allEarthquakes[nextIndex + 1].timestamp))
                    /\ Len(e5.circles) <= MaxCircles
                    /\ circles' = e5.circles
                    /\ pass' = e5.pass
                    /\ UNCHANGED <<isSimulationRunning, intervalId, exhausted>>
           ELSE /\ UNCHANGED <<isSimulationRunning, intervalId, exhausted>>
                /\ currentSimulationTime' =
                      IF Len(allEarthquakes) > 0
                      THEN Format(allEarthquakes[Len(allEarthquakes)].timestamp)
                      ELSE currentSimulationTime
                /\ UNCHANGED <<simulationIndex, circles, pass>>
    /\ UNCHANGED <<geoLoad, csvLoad, projection, allEarthquakes,
                   minMagnitudeFilter, showOnlyShallow, probe>>

\* lines 139-165: the interval callback, then the effects of the render
Tick ==
    /\ intervalId
    /\ LET nextIndex == simulationIndex + 1
       IN  IF nextIndex < Len(allEarthquakes)
           THEN LET e5 == Effect5(allEarthquakes, nextIndex, minMagnitudeFilter,
                                  showOnlyShallow, projection, circles, pass)
                IN  /\ simulationIndex' = nextIndex
                    /\ currentSimulationTime' =
                          Effect3(allEarthquakes, nextIndex,
                                  Format(allEarthquakes[nextIndex + 1].timestamp))
                    /\ Len(e5.circles) <= MaxCircles
                    /\ circles' = e5.circles
                    /\ pass' = e5.pass
                    /\ UNCHANGED <<isSimulationRunning, intervalId, exhausted>>
           ELSE /\ isSimulationRunning' = FALSE
                /\ exhausted' = TRUE
                /\ intervalId' = Effect2(allEarthquakes, FALSE)
                /\ currentSimulationTime' =
                      IF Len(allEarthquakes) > 0
                      THEN Format(allEarthquakes[Len(allEarthquakes)].timestamp)
                      ELSE currentSimulationTime
                /\ UNCHANGED <<simulationIndex, circles, pass>>
    /\ UNCHANGED <<geoLoad, csvLoad, projection, allEarthquakes,
                   minMagnitudeFilter, showOnlyShallow, probe>>

\* lines 381-393: the play/pause button, then Effect 2
PlayPause ==
    /\ ~(Len(allEarthquakes) = 0 \/ simulationIndex >= Len(allEarthquakes))
    /\ isSimulationRunning' = ~isSimulationRunning
    /\ exhausted' = FALSE
    /\ intervalId' = Effect2(allEarthquakes, ~isSimulationRunning)
    /\ UNCHANGED <<geoLoad, csvLoad, projection, allEarthquakes, simulationIndex,
                   currentSimulationTime, minMagnitudeFilter, showOnlyShallow,
                   circles, pass, probe>>

\* the slider handler also restarts the simulation
Seek_Resumes(requested) ==
    /\ Len(allEarthquakes) # 0
    /\ LET value == SliderValue(allEarthquakes, requested)
           e5 == Effect5(allEarthquakes, value, minMagnitudeFilter,
                         showOnlyShallow, projection, circles, pass)
       IN  /\ value # simulationIndex
           /\ simulationIndex' = value
           /\ currentSimulationTime' =
                 Effect3(allEarthquakes, value, currentSimulationTime)
           /\ Len(e5.circles) <= MaxCircles
           /\ circles' = e5.circles
           /\ pass' = e5.pass
    /\ isSimulationRunning' = TRUE
    /\ intervalId' = Effect2(allEarthquakes, TRUE)
    /\ UNCHANGED <<geoLoad, csvLoad, projection, allEarthquakes,
                   minMagnitudeFilter, showOnlyShallow, probe, exhausted>>

\* lines 402-411: the progress slider is moved to the requested position,
\* then Effects 3 and 5
Seek(requested) ==
    /\ Len(allEarthquakes) # 0
    /\ LET value == SliderValue(allEarthquakes, requested)
           e5 == Effect5(allEarthquakes, value, minMagnitudeFilter,
                         showOnlyShallow, projection, circles, pass)
       IN  /\ value # simulationIndex
           /\ simulationIndex' = value
           /\ currentSimulationTime' =
                 Effect3(allEarthquakes, value, currentSimulationTime)
           /\ Len(e5.circles) <= MaxCircles
           /\ circles' = e5.circles
           /\ pass' = e5.pass
    /\ UNCHANGED <<geoLoad, csvLoad, projection, allEarthquakes,
                   isSimulationRunning, intervalId, minMagnitudeFilter,
                   showOnlyShallow, probe, exhausted>>

\* lines 426-435: the magnitude slider, then Effect 5
SetMinMagnitude(v) ==
    /\ v # minMagnitudeFilter
    /\ minMagnitudeFilter' = v
    /\ LET e5 == Effect5(allEarthquakes, simulationIndex, v, showOnlyShallow,
                         projection, circles, pass)
       IN  /\ Len(e5.circles) <= MaxCircles
           /\ circles' = e5.circles
           /\ pass' = e5.pass
    /\ UNCHANGED <<geoLoad, csvLoad, projection, allEarthquakes, simulationIndex,
                   isSimulationRunning, intervalId, currentSimulationTime,
                   showOnlyShallow, probe, exhausted>>

\* lines 440-446: the depth checkbox, then Effect 5
ToggleShallow ==
    /\ showOnlyShallow' = ~showOnlyShallow
    /\ LET e5 == Effect5(allEarthquakes, simulationIndex, minMagnitudeFilter,
                         ~showOnlyShallow, projection, circles, pass)
       IN  /\ Len(e5.circles) <= MaxCircles
           /\ circles' = e5.circles
           /\ pass' = e5.pass
    /\ UNCHANGED <<geoLoad, csvLoad, projection, allEarthquakes, simulationIndex,
                   isSimulationRunning, intervalId, currentSimulationTime,
                   minMagnitudeFilter, probe, exhausted>>

\* lines 357-359: the exit tween of a circle completes
OnComplete(id) ==
    /\ \E p \in DOMAIN circles : circles[p].id = id /\ circles[p].exiting
    /\ circles' = RemoveId(circles, id)
    /\ UNCHANGED <<geoLoad, csvLoad, projection, allEarthquakes, simulationIndex,
                   isSimulationRunning, intervalId, currentSimulationTime,
                   minMagnitudeFilter, showOnlyShallow, pass, probe, exhausted>>

Next ==
    \/ GeoLoaded
    \/ GeoFailed
    \/ \E data \in CsvFiles : CsvLoaded(data)
    \/ CsvFailed
    \/ Tick
    \/ PlayPause
    \/ \E requested \in SeekRequests : Seek(requested)
    \/ \E v \in MinMagnitudeValues : SetMinMagnitude(v)
    \/ ToggleShallow
    \/ \E id \in Ids(circles) : OnComplete(id)

Spec == Init /\ [][Next]_vars

---------------------------------------------------------------------------
(* The filter callback on its own: one event, one filter configuration *)

FilterMagnitudes == {0, 49, 50, 51, 100}

FilterDepths == {0, 49, 50, 51, 700}

FilterThresholds == {0, 50, 100}

FilterInit ==
    /\ geoLoad = "pending"
    /\ csvLoad = "pending"
    /\ projection = FALSE
    /\ allEarthquakes = << >>
    /\ simulationIndex = 0
    /\ isSimulationRunning = TRUE
    /\ intervalId = FALSE
    /\ currentSimulationTime = << >>
    /\ minMagnitudeFilter = 0
    /\ showOnlyShallow = FALSE
    /\ circles = << >>
    /\ pass = NoPass
    /\ exhausted = FALSE
    /\ probe \in [d : [magnitude : FilterMagnitudes, depth : FilterDepths],
                  minMagnitudeFilter : FilterThresholds,
                  showOnlyShallow : BOOLEAN,
                  called : {FALSE}, result : {FALSE}]

\* lines 272-276 applied to the probe
ApplyFilter ==
    /\ ~probe.called
    /\ probe' = [probe EXCEPT
                    !.called = TRUE,
                    !.result = FilterPass(probe.d, probe.minMagnitudeFilter,
                                          probe.showOnlyShallow)]
    /\ UNCHANGED appVars

FilterNext == ApplyFilter

SpecFilter == FilterInit /\ [][FilterNext]_vars

---------------------------------------------------------------------------
(* The reduce of lines 70-109 on its own: one CSV file, one engine *)

\* raw rows, valid ones and ones with each kind of defect; the last four
\* have a number outside the range of its field
ParseRows ==
    { Row(10, 20, 30, 10, <<1, 1, <<7, 5>>>>, 0),
      Row(30, 40, 80, 70, <<1, 1, <<2, 0, 0, 5>>>>, 0),
      Row(30, 40, 50, 10, <<2, 29, <<0, 4>>>>, 90),
      Row(NaN, 20, 30, 10, <<1, 2, <<0, 5>>>>, 0),
      Row(10, NaN, 30, 10, <<1, 2, <<0, 5>>>>, 0),
      Row(10, 20, NaN, 10, <<1, 2, <<0, 5>>>>, 0),
      Row(10, 20, 30, NaN, <<1, 2, <<0, 5>>>>, 0),
      Row(10, 20, 30, 10, << >>, 0),
      Row(10, 20, 30, 10, <<1, <<0, 5>>>>, 0),
      Row(10, 20, 30, 10, <<1, 2, <<0, 5>>>>, NoTime),
      Row(10, 20, 30, 10, <<13, 1, <<0, 5>>>>, 0),
      Row(10, 20, 30, 10, <<2, 30, <<0, 5>>>>, 0),
      Row(10, 20, 30, 10, <<1, 2, <<0, 5>>>>, 90000),
      Row(95, 20, 30, 10, <<1, 2, <<0, 5>>>>, 0),
      Row(10, 0 - 200, 30, 10, <<1, 2, <<0, 5>>>>, 0),
      Row(10, 20, 0 - 10, 10, <<1, 2, <<0, 5>>>>, 0),
      Row(10, 20, 30, 0 - 5, <<1, 2, <<0, 5>>>>, 0) }

ParseInit ==
    /\ geoLoad = "pending"
    /\ csvLoad = "pending"
    /\ projection = FALSE
    /\ allEarthquakes = << >>
    /\ simulationIndex = 0
    /\ isSimulationRunning = TRUE
    /\ intervalId = FALSE
    /\ currentSimulationTime = << >>
    /\ minMagnitudeFilter = 0
    /\ showOnlyShallow = FALSE
    /\ circles = << >>
    /\ pass = NoPass
    /\ exhausted = FALSE
    /\ probe \in [data : SeqsUpTo(ParseRows, MaxRows), rollsOver : BOOLEAN,
                  called : {FALSE}, result : {<< >>}]

\* lines 70-109 applied to the probe
ApplyParse ==
    /\ ~probe.called
    /\ probe' = [probe EXCEPT
                    !.called = TRUE,
                    !.result = ParsedDataOn(probe.data, probe.rollsOver)]
    /\ UNCHANGED appVars

ParseNext == ApplyParse

SpecParse == ParseInit /\ [][ParseNext]_vars

---------------------------------------------------------------------------
(* The year heuristic of lines 85-90 on its own: one year string *)

\* every two-digit year, and some years of four digits
YearStrings ==
    {<<a, b>> : a \in 0..9, b \in 0..9}
        \cup {<<1, 9, 6, 9>>, <<1, 9, 7, 5>>, <<2, 0, 0, 5>>, <<2, 0, 6, 9>>,
              <<0, 0, 6, 9>>}

YearInit ==
    /\ geoLoad = "pending"
    /\ csvLoad = "pending"
    /\ projection = FALSE
    /\ allEarthquakes = << >>
    /\ simulationIndex = 0
    /\ isSimulationRunning = TRUE
    /\ intervalId = FALSE
    /\ currentSimulationTime = << >>
    /\ minMagnitudeFilter = 0
    /\ showOnlyShallow = FALSE
    /\ circles = << >>
    /\ pass = NoPass
    /\ exhausted = FALSE
    /\ probe \in [year : YearStrings, called : {FALSE}, result : {<< >>}]

\* lines 85-90 applied to the probe
ApplyResolveYear ==
    /\ ~probe.called
    /\ probe' = [probe EXCEPT !.called = TRUE,
                              !.result = ResolveYear(probe.year)]
    /\ UNCHANGED appVars

YearNext == ApplyResolveYear

SpecYear == YearInit /\ [][YearNext]_vars

---------------------------------------------------------------------------
(* The magnitude handler of line 433 fed with any string: parseFloat of a   *)
(* string that is no number is NaN.  The range input of lines 426-435 only  *)
(* produces numbers; here the handler is driven directly.                   *)

RawMagnitudeValues == MinMagnitudeValues \cup {NaN}

RawInputNext ==
    \/ GeoLoaded
    \/ \E data \in CsvFiles : CsvLoaded(data)
    \/ Tick
    \/ \E v \in RawMagnitudeValues : SetMinMagnitude(v)
    \/ \E id \in Ids(circles) : OnComplete(id)

SpecRawInput == Init /\ [][RawInputNext]_vars

---------------------------------------------------------------------------
(* Playback left alone: the loads and the timer, no user input after the    *)
(* controls were set.  setInterval keeps calling the callback as long as    *)
(* the interval is installed, hence the weak fairness of Tick.              *)

PlaybackInit ==
    /\ geoLoad = "pending"
    /\ csvLoad = "pending"
    /\ projection = FALSE
    /\ allEarthquakes = << >>
    /\ simulationIndex = 0
    /\ isSimulationRunning = TRUE
    /\ intervalId = FALSE
    /\ currentSimulationTime = << >>
    /\ minMagnitudeFilter \in MinMagnitudeValues
    /\ showOnlyShallow \in BOOLEAN
    /\ circles = << >>
    /\ pass = NoPass
    /\ exhausted = FALSE
    /\ probe = NoProbe

PlaybackNext ==
    \/ GeoLoaded
    \/ GeoFailed
    \/ \E data \in CsvFiles : CsvLoaded(data)
    \/ CsvFailed
    \/ Tick

SpecPlayback == PlaybackInit /\ [][PlaybackNext]_vars /\ WF_vars(Tick)

---------------------------------------------------------------------------
(* The whole component with the exit tweens running to their end: a gsap    *)
(* tween started at lines 350-360 completes after ANIMATION_DURATION_S and  *)
(* no later tween on the same element cancels it.                           *)

\* the ids FreshId gives to at most MaxCircles + 1 circles
CircleIds == 0..MaxCircles

SpecExits == Spec /\ \A id \in CircleIds : WF_vars(OnComplete(id))

---------------------------------------------------------------------------
(* Properties *)

NumEvents == Len(allEarthquakes)

UniqueKeys ==
    \A i, j \in DOMAIN allEarthquakes :
        i # j => Key(allEarthquakes[i]) # Key(allEarthquakes[j])

HasCircle(dom, id) == \E q \in DOMAIN dom : dom[q].id = id

IsPrefix(s, t) == Len(s) <= Len(t) /\ \A j \in DOMAIN s : s[j] = t[j]

\* the store positions, counted from 1, that are released and pass the filter
VisiblePositions ==
    {i \in DOMAIN allEarthquakes :
        /\ i <= simulationIndex
        /\ allEarthquakes[i].magnitude >= minMagnitudeFilter
        /\ (showOnlyShallow => allEarthquakes[i].depth < 50)}

\* C1: after every resolver pass the visible set is exactly the events at the
\* store positions below the cursor index that pass the filter, in store
\* order; no event at or beyond the index is in it.
C1_VisibleSetIsReleasedAndFiltered ==
    pass.ran =>
        /\ Len(pass.current) = Cardinality(VisiblePositions)
        /\ \A j \in DOMAIN pass.current :
              \E i \in VisiblePositions :
                  /\ Cardinality({h \in VisiblePositions : h < i}) = j - 1
                  /\ pass.current[j] = allEarthquakes[i]

\* a pass that shows one released event, hides another released one, and
\* leaves out an unreleased event that would pass the filter
C1_Witness ==
    /\ pass.ran
    /\ simulationIndex = 2
    /\ Len(pass.current) = 1
    /\ \E i \in DOMAIN allEarthquakes :
          /\ i > simulationIndex
          /\ FilterPass(allEarthquakes[i], minMagnitudeFilter, showOnlyShallow)

\* C2: the filter passes an event iff its magnitude is at least minMagnitude
\* and (shallowOnly is off or its depth is below 50); the same holds with the
\* two clauses taken in the other order.
C2_FilterPassesIff ==
    probe.called =>
        /\ probe.result =
              (/\ probe.d.magnitude >= probe.minMagnitudeFilter
               /\ (~probe.showOnlyShallow \/ probe.d.depth < 50))
        /\ probe.result =
              (/\ (~probe.showOnlyShallow \/ probe.d.depth < 50)
               /\ probe.d.magnitude >= probe.minMagnitudeFilter)

\* magnitude equal to the threshold, depth exactly 50, shallow only: rejected
C2_Witness ==
    /\ probe.called
    /\ probe.d.magnitude = probe.minMagnitudeFilter
    /\ probe.d.depth = 50
    /\ probe.showOnlyShallow
    /\ ~probe.result

\* C3: every tick with index < N adds exactly 1 to the index, so that N ticks
\* lead from 0 to N.
C3_EveryTickBelowNAdvances ==
    [][(Tick /\ simulationIndex < NumEvents)
          => simulationIndex' = simulationIndex + 1]_vars

\* C4: the join classifies by the visible sets of the previous and of the
\* current pass: entering = keys(C) \ keys(P), exiting = keys(P) \ keys(C),
\* updating = the keys in both (stated for stores without equal timestamps).
C4_JoinDiffsConsecutiveVisibleSets ==
    (pass.ran /\ UniqueKeys) =>
        /\ pass.entering = Keys(pass.current) \ Keys(pass.previous)
        /\ pass.exiting = Keys(pass.previous) \ Keys(pass.current)
        /\ pass.updating = Keys(pass.current) \cap Keys(pass.previous)

\* C5: a circle whose exit animation is pending and whose key is back in the
\* visible set is kept: no step removes it (stated for stores without equal
\* timestamps).
C5_ReappearedKeyKeepsItsCircle ==
    [][\A p \in DOMAIN circles :
          (/\ UniqueKeys
           /\ pass.ran
           /\ circles[p].exiting
           /\ Key(circles[p].data) \in Keys(pass.current))
          => HasCircle(circles', circles[p].id)]_vars

\* C6: a circle is taken out of the document only by the completion callback
\* of its exit animation; no resolver pass removes a circle, and a circle
\* classified as exiting stays pending across the passes.
C6_RemovedOnlyOnCompletion ==
    [][\A p \in DOMAIN circles :
          \/ OnComplete(circles[p].id)
          \/ /\ HasCircle(circles', circles[p].id)
             /\ circles[p].exiting =>
                   circles'[PosOf(circles', circles[p].id)].exiting]_vars

\* a circle that is still in the document although the last two passes both
\* had its key outside the visible set
C6_Witness ==
    /\ pass.ran
    /\ UniqueKeys
    /\ \E p \in DOMAIN circles :
          /\ circles[p].exiting
          /\ Key(circles[p].data) \notin Keys(pass.previous)
          /\ Key(circles[p].data) \notin Keys(pass.current)
          /\ Key(circles[p].data) \in pass.exiting

\* C7: two different events of the store have different keys.
C7_KeysAreUnique ==
    \A i, j \in DOMAIN allEarthquakes :
        (i # j /\ allEarthquakes[i] # allEarthquakes[j])
            => Key(allEarthquakes[i]) # Key(allEarthquakes[j])

\* C8: for the filter in force, the visible set resolved at index k is
\* contained in the one resolved at index k+1, for every k in 0..N-1.
C8_MonotonicPlayback ==
    csvLoad = "loaded" =>
        \A k \in 0..(NumEvents - 1) :
            IsPrefix(FilteredEarthquakes(allEarthquakes, k,
                                         minMagnitudeFilter, showOnlyShallow),
                     FilteredEarthquakes(allEarthquakes, k + 1,
                                         minMagnitudeFilter, showOnlyShallow))

\* a tick has added an event to a visible set that was not empty
C8_Witness ==
    /\ pass.ran
    /\ simulationIndex = 2
    /\ Len(pass.previous) = 1
    /\ Len(pass.current) = 2
    /\ pass.current[1] = pass.previous[1]

\* C9: a pass whose visible set equals that of the previous pass has no
\* entering and no exiting key and updates exactly the keys of the set
\* (stated for stores without equal timestamps).
C9_DiffIsIdempotent ==
    (pass.ran /\ UniqueKeys /\ pass.previous = pass.current) =>
        /\ pass.entering = {}
        /\ pass.exiting = {}
        /\ pass.updating = Keys(pass.current)

\* C10: seek(newIndex) sets the index to clamp(newIndex, 0, N) (stated for
\* the seeks made while no timer is installed, where no tick can be taken
\* for the seek).
C10_SeekClampsToN ==
    [][\A requested \in SeekRequests :
          (~intervalId /\ Seek(requested))
              => simulationIndex' = Min2(Max2(requested, 0), NumEvents)]_vars

\* C11: once the clock has stopped by exhaustion, a seek to an index below N
\* leaves it stopped: running stays false and no interval is installed, so
\* the index moves only by further seeks and running becomes true only by the
\* play button.
C11_SeekAfterFinishStaysPaused ==
    [][exhausted =>
          /\ ~isSimulationRunning /\ ~intervalId
          /\ isSimulationRunning' => PlayPause
          /\ simulationIndex' # simulationIndex =>
                /\ ~isSimulationRunning' /\ ~intervalId'
                /\ \E requested \in SeekRequests : Seek(requested)]_vars

\* the clock has stopped at the end and the slider was then moved back
C11_Witness ==
    /\ exhausted
    /\ NumEvents = 3
    /\ simulationIndex = 0
    /\ ~isSimulationRunning

\* C12: once the clock has stopped by exhaustion, the play button does
\* nothing: running stays false and no interval is installed.
C12_PlayAfterFinishIsNoOp ==
    [][(exhausted /\ PlayPause)
          => (~isSimulationRunning' /\ ~intervalId')]_vars

\* C13: pausing stops the clock and keeps the index; while the clock is
\* stopped no interval is installed and the index moves only by a seek.
C13_PauseKeepsIndex ==
    [][/\ (isSimulationRunning /\ PlayPause) =>
             /\ ~isSimulationRunning' /\ ~intervalId'
             /\ simulationIndex' = simulationIndex
       /\ ~isSimulationRunning =>
             /\ ~intervalId
             /\ simulationIndex' # simulationIndex =>
                   \E requested \in SeekRequests : Seek(requested)]_vars

\* paused by the button in the middle of the data, before the end was reached
C13_Witness ==
    /\ ~isSimulationRunning
    /\ ~exhausted
    /\ NumEvents = 3
    /\ simulationIndex = 1

\* C14 as stated: whenever at least one event is released (index >= 1) the
\* displayed time is the time of the newest released event, the one at store
\* position index - 1 (position index of the 1-based sequence).
C14_TimeOfNewestReleased ==
    (csvLoad = "loaded" /\ simulationIndex >= 1) =>
        currentSimulationTime =
            Format(allEarthquakes[simulationIndex].timestamp)

\* C14 as amended: whenever the store is not empty the displayed time is the
\* time, to the minute, of the event at store position index, the next event
\* to be released (position index + 1 of the 1-based sequence).
C14_TimeOfNextEvent ==
    (csvLoad = "loaded" /\ NumEvents > 0) =>
        /\ simulationIndex + 1 \in DOMAIN allEarthquakes
        /\ currentSimulationTime =
              Format(allEarthquakes[simulationIndex + 1].timestamp)

\* an event is released and the next one has another time
C14_Witness ==
    /\ csvLoad = "loaded"
    /\ simulationIndex >= 1
    /\ simulationIndex + 1 \in DOMAIN allEarthquakes
    /\ Format(allEarthquakes[simulationIndex].timestamp)
          # Format(allEarthquakes[simulationIndex + 1].timestamp)
    /\ currentSimulationTime =
          Format(allEarthquakes[simulationIndex + 1].timestamp)

\* the instant of a is not after the instant of b
NotAfter(a, b) ==
    LET ta == getTime(a.timestamp)
        tb == getTime(b.timestamp)
    IN  ta[1] < tb[1] \/ (ta[1] = tb[1] /\ ta[2] <= tb[2])

NonDecreasing(all) ==
    \A i \in 1..(Len(all) - 1) : NotAfter(all[i], all[i + 1])

\* C15: the store is non-decreasing by timestamp in every state, and once
\* built it is never changed.
C15_StoreSortedAndFrozen ==
    [][/\ NonDecreasing(allEarthquakes')
       /\ csvLoad = "loaded" => allEarthquakes' = allEarthquakes]_vars

\* a store of three events of which the last is later than the first, read
\* after the simulation has moved on
C15_Witness ==
    /\ csvLoad = "loaded"
    /\ NumEvents = 3
    /\ ~NotAfter(allEarthquakes[3], allEarthquakes[1])
    /\ simulationIndex = 2

\* the four numeric fields of a raw row parse
NumbersParse(d) ==
    /\ d.Latitude # NaN /\ d.Longitude # NaN
    /\ d.Magnitude # NaN /\ d.Depth # NaN

\* Date and Time of a raw row make an instant of the calendar: month/day/year
\* with a year of two or four digits and a time within the day; a day past
\* the end of its month counts where the engine rolls it over
InstantValid(d, rollsOver) ==
    /\ d.Time \in 0..86399
    /\ Len(d.Date) = 3
    /\ Len(d.Date[3]) \in {2, 4}
    /\ d.Date[1] \in 1..12
    /\ LET yy == d.Date[3]
           year == IF Len(yy) = 4
                   THEN 1000 * yy[1] + 100 * yy[2] + 10 * yy[3] + yy[4]
                   ELSE (IF 10 * yy[1] + yy[2] < 70 THEN 2000 ELSE 1900)
                           + 10 * yy[1] + yy[2]
       IN  d.Date[2] \in 1..(IF rollsOver THEN 31
                             ELSE DaysInMonth(d.Date[1], year))

RowValid(d, rollsOver) == NumbersParse(d) /\ InstantValid(d, rollsOver)

\* C16: the store built from a file holds, in the order of the file, exactly
\* the rows that are valid on their own, with the values of their fields: a
\* row is dropped iff a numeric field fails to parse or its date and time make
\* no valid instant, whatever the other rows are.
C16_RowsJudgedIndependently ==
    probe.called =>
        LET kept == SelectSeq(probe.data,
                              LAMBDA d : RowValid(d, probe.rollsOver))
        IN  /\ Len(probe.result) = Len(kept)
            /\ \A i \in DOMAIN kept :
                  /\ probe.result[i].latitude = kept[i].Latitude
                  /\ probe.result[i].longitude = kept[i].Longitude
                  /\ probe.result[i].magnitude = kept[i].Magnitude
                  /\ probe.result[i].depth = kept[i].Depth
                  /\ TsMonth(probe.result[i].timestamp) = kept[i].Date[1]
                  /\ TsDay(probe.result[i].timestamp) = kept[i].Date[2]
                  /\ TsTime(probe.result[i].timestamp) = kept[i].Time

\* a valid row, an invalid row and a valid row: both valid rows are kept
C16_Witness ==
    /\ probe.called
    /\ Len(probe.data) = 3
    /\ RowValid(probe.data[1], probe.rollsOver)
    /\ ~RowValid(probe.data[2], probe.rollsOver)
    /\ RowValid(probe.data[3], probe.rollsOver)
    /\ Len(probe.result) = 2

\* C17: a two-digit year yy resolves to 2000 + yy when yy < 70 and to
\* 1900 + yy otherwise; a year of four digits is left as it is.
C17_TwoDigitYearRule ==
    probe.called =>
        IF Len(probe.year) = 2
        THEN LET yy == 10 * probe.year[1] + probe.year[2]
                 r == probe.result
             IN  /\ Len(r) = 4
                 /\ 1000 * r[1] + 100 * r[2] + 10 * r[3] + r[4]
                       = (IF yy < 70 THEN 2000 + yy ELSE 1900 + yy)
        ELSE probe.result = probe.year

\* the year 70, the first one of the 1900s
C17_Witness ==
    /\ probe.called
    /\ probe.year = <<7, 0>>
    /\ probe.result = <<1, 9, 7, 0>>

C19_EmptyStoreDisablesControls ==
    (csvLoad = "loaded" /\ NumEvents = 0) =>
        /\ ~intervalId
        /\ ~ENABLED Tick
        /\ ~ENABLED PlayPause
        /\ \A requested \in SeekRequests : ~ENABLED Seek(requested)
        /\ simulationIndex = 0
        /\ circles = << >>
        /\ FilteredEarthquakes(allEarthquakes, simulationIndex,
                               minMagnitudeFilter, showOnlyShallow) = << >>

\* an empty store, the map drawn and both filters moved afterwards
C19_Witness ==
    /\ csvLoad = "loaded"
    /\ NumEvents = 0
    /\ geoLoad = "loaded"
    /\ minMagnitudeFilter = 50
    /\ showOnlyShallow

\* the scenario of C20: magnitudes 3.0, 6.0, 8.0 at positions 0, 1, 2, index
\* 2, threshold 5.0, no depth filter, and the map is drawn
C20_Scenario ==
    /\ NumEvents = 3
    /\ [i \in 1..3 |-> allEarthquakes[i].magnitude] = <<30, 60, 80>>
    /\ simulationIndex = 2
    /\ minMagnitudeFilter = 50
    /\ ~showOnlyShallow
    /\ pass.ran

\* C20 as stated: in the scenario the visible set is {event[1], event[2]}.
C20_VisibleIsEvents1And2 ==
    C20_Scenario =>
        Range(pass.current) = {allEarthquakes[2], allEarthquakes[3]}

\* C20 as amended: in the scenario the visible set is {event[1]}; event[2],
\* at the index, is not released yet.
C20_VisibleIsEvent1 ==
    C20_Scenario => Range(pass.current) = {allEarthquakes[2]}

C20_Witness == C20_Scenario /\ Range(pass.current) = {allEarthquakes[2]}

\* C21: every event of the built store has its latitude in [-90, 90], its
\* longitude in [-180, 180], a magnitude >= 0 and a depth >= 0.
C21_StoredEventsInRange ==
    probe.called =>
        \A i \in DOMAIN probe.result :
            /\ probe.result[i].latitude \in (0 - 90)..90
            /\ probe.result[i].longitude \in (0 - 180)..180
            /\ probe.result[i].magnitude >= 0
            /\ probe.result[i].depth >= 0

\* C23: with a store of at least one event and the clock running, the timer
\* left alone brings the clock to running = false; once it is false the timer
\* changes neither the flag nor the index.
C23_PlaybackTerminates ==
    /\ (csvLoad = "loaded" /\ NumEvents >= 1 /\ isSimulationRunning)
          ~> ~isSimulationRunning
    /\ [][~isSimulationRunning =>
             UNCHANGED <<isSimulationRunning, simulationIndex>>]_vars

\* the timer has run through a store of three events and stopped
C23_Witness ==
    /\ NumEvents = 3
    /\ exhausted
    /\ ~isSimulationRunning
    /\ ~intervalId
    /\ simulationIndex = 2

\* C24: when the timer has run to the end of the data with threshold 0 and
\* no depth filter, and the slider was not moved back, the visible set holds
\* every event of the store, the last one included.
C24_FinalVisibleSetIsWholeStore ==
    (/\ exhausted
     /\ simulationIndex >= NumEvents - 1
     /\ minMagnitudeFilter = 0
     /\ ~showOnlyShallow
     /\ geoLoad = "loaded")
        => FilteredEarthquakes(allEarthquakes, simulationIndex,
                               minMagnitudeFilter, showOnlyShallow)
              = allEarthquakes

\* the keys of the circles that have no removal pending
LiveKeys == {Key(circles[p].data) : p \in {q \in DOMAIN circles :
                                                ~circles[q].exiting}}

\* C25: every pass works on the index and the filter of the state it runs
\* in: after a pass the circles with no removal pending have exactly the
\* keys of the visible set of the current index and filter (looked at for
\* stores whose keys are unique).
C25_PassSeesCurrentInputs ==
    (pass.ran /\ UniqueKeys) =>
        /\ pass.current = FilteredEarthquakes(allEarthquakes, simulationIndex,
                                              minMagnitudeFilter,
                                              showOnlyShallow)
        /\ LiveKeys = Keys(pass.current)

BothLoaded == geoLoad = "loaded" /\ csvLoad = "loaded"

\* C26: in whichever order the two loads complete, with ticks in between,
\* nothing is drawn while there is no projection, and the step that completes
\* the second load runs a pass that draws exactly the visible set of the
\* index reached so far.
C26_LoadsInEitherOrder ==
    [][/\ ~projection' => (~pass'.ran /\ circles' = << >>)
       /\ (~BothLoaded /\ BothLoaded' /\ Len(allEarthquakes') > 0) =>
             /\ pass'.ran
             /\ pass'.current =
                   FilteredEarthquakes(allEarthquakes', simulationIndex',
                                       minMagnitudeFilter', showOnlyShallow')
             /\ [p \in DOMAIN circles' |-> circles'[p].data] = pass'.current
             /\ \A p \in DOMAIN circles' : ~circles'[p].exiting]_vars

\* the map has arrived after the rows and two ticks: the first pass has
\* drawn two events at once
C26_Witness ==
    /\ BothLoaded
    /\ simulationIndex = 2
    /\ pass.ran
    /\ pass.previous = << >>
    /\ Len(pass.current) = 2
    /\ Len(circles) = 2

IsExiting(id) == \E p \in DOMAIN circles : circles[p].id = id /\ circles[p].exiting

\* C27: after every pass a circle whose key is not in the visible set has an
\* exit tween pending, and a circle with a pending exit tween is eventually
\* removed, whatever passes run in the meantime.
C27_NoOrphanedCircles ==
    /\ [](pass.ran =>
            \A p \in DOMAIN circles :
                Key(circles[p].data) \notin
                    Keys(FilteredEarthquakes(allEarthquakes, simulationIndex,
                                             minMagnitudeFilter,
                                             showOnlyShallow))
                  => circles[p].exiting)
    /\ [](\A p \in DOMAIN circles : circles[p].id \in CircleIds)
    /\ \A id \in CircleIds : IsExiting(id) ~> ~HasCircle(circles, id)

\* a circle out of the visible set that a second pass has sent to exit again
C27_Witness ==
    /\ pass.ran
    /\ UniqueKeys
    /\ \E p \in DOMAIN circles :
          /\ circles[p].exiting
          /\ Key(circles[p].data) \in pass.exiting
          /\ Key(circles[p].data) \notin Keys(pass.previous)
          /\ Key(circles[p].data) \notin Keys(pass.current)

====
